---- MODULE Spec2Model ----
(***************************************************************************)
(* BatchSynchronizer (synchronizer/batches.go): the Start loop that        *)
(* subscribes to SequenceBatches events, the per-event handling            *)
(* (parseEvent, exists, resolve, store) and Stop.                          *)
(*                                                                         *)
(* Start is one sequential goroutine; pc is its position in the code.      *)
(* Stop and the subscriptions' goroutines are the environment.             *)
(***************************************************************************)
EXTENDS Integers, Sequences, FiniteSets, TLC

\* ---------------------------------------------------------------- bounds
MaxBlock == 2      \* blocks 1..MaxBlock each carry one SequenceBatches event
MaxKey == 2        \* content keys 1..MaxKey
MaxAddr == 3       \* committee addresses 1..MaxAddr (address 1 is bs.self)
MaxBatches == 2    \* batches (keys) referenced by one event

Keys == 1..MaxKey
Addrs == 1..MaxAddr
Blocks == 1..MaxBlock

\* common.Address{} : the Addr of a zero-valued etherman.DataCommitteeMember
ZeroAddr == 0
\* bs.self
Self == 1

VARIABLES
    pc,                  \* position of Start
    stop,                \* bs.stop is closed
    start,               \* Start's local start
    sub,                 \* Start's local sub: "nil", "live" or "closed"
    subNext,             \* the block of the next event sub will send
    err,                 \* Start's local err after handleSequenceBatches
    sb,                  \* the event received at the select (NoEvent: none)
    leaked,              \* live subscriptions Start holds no more: their next blocks
    committee,           \* bs.committee: the addresses in the cache
    storage,             \* durable payload table: key -> 1 stored, 0 absent
    lastProcessedBlock,  \* durable progress record
    missing,             \* resolveAndStore's keys
    data,                \* resolveAndStore's data
    lastResolve,         \* the resolve call in progress or just returned
    storeLog             \* what the most recent store call did

vars == <<pc, stop, start, sub, subNext, err, sb, leaked, committee, storage,
          lastProcessedBlock, missing, data, lastResolve, storeLog>>

\* ------------------------------------------------------------ small helpers
Range(s) == {s[i] : i \in 1..Len(s)}

SeqsUpTo(S, n) == UNION {[1..m -> S] : m \in 0..n}

\* a set of addresses as a sequence, ascending (one iteration order of the map)
RECURSIVE SetToSeq(_)
SetToSeq(S) ==
    IF S = {} THEN <<>>
    ELSE LET m == CHOOSE x \in S : \A y \in S : x <= y
         IN <<m>> \o SetToSeq(S \ {m})

NoEvent == [block |-> 0, shape |-> "none", keys |-> <<>>]
\* offchaindata.OffChainData{}
ZeroData == [Key |-> 0, Value |-> 0]

\* no resolve call, no store call in this handling so far
NoResolve == [called |-> FALSE, key |-> 0, index |-> 0, err |-> "nil",
              value |-> ZeroData]
NoStore == [called |-> FALSE, opened |-> FALSE, rollbacks |-> 0,
            committed |-> FALSE, fail |-> "none"]

\* ----------------------------------------------------------- event decoding
\* Shapes of event.Raw.Data:
\*   "ok"          a known selector followed by a well-formed batch list
\*   "short"       fewer than 4 bytes (len = cap), so Data[:4] is out of range
\*   "badSelector" MethodById fails
\*   "badArgs"     method.Inputs.Unpack fails
\*   "badJSON"     the first argument is not a list of Supernets2BatchData
Shapes == {"ok", "short", "badSelector", "badArgs", "badJSON"}

Events == {[block |-> b, shape |-> "ok", keys |-> ks] :
              b \in Blocks, ks \in SeqsUpTo(Keys, MaxBatches)}
          \cup {[block |-> b, shape |-> s, keys |-> <<>>] :
              b \in Blocks, s \in Shapes \ {"ok"}}

\* parseEvent: (block, keys, err); err = "panic" when the slice expression
\* event.Raw.Data[:4] is out of range and the goroutine panics.
parseEvent(event) ==
    CASE event.shape = "short" -> [block |-> 0, keys |-> <<>>, err |-> "panic"]
      [] event.shape \in {"badSelector", "badArgs", "badJSON"} ->
            [block |-> 0, keys |-> <<>>, err |-> "decode"]
      [] OTHER -> [block |-> event.block, keys |-> event.keys, err |-> "nil"]

\* ------------------------------------------------------------- getStartBlock
\* read = the value GetLastProcessedBlock returned, dbErr = whether it failed.
\* (getStartBlockNoStepBack: the variant without lines 136-138.)
getStartBlockNoStepBack(read, dbErr) == [start |-> read, err |-> dbErr]

getStartBlock(read, dbErr) ==
    [start |-> IF read > 0 THEN read - 1 ELSE read, err |-> dbErr]

\* ------------------------------------------------------------------ storage
\* db.Exists: the existence probe.
Exists(st, key) == st[key] # 0

\* A transaction collects writes; they reach the durable state at Commit only.
BeginStateTransaction(db) == [payloads |-> db.storage, block |-> db.block]

StoreOffChainData(tx, rows) ==
    [tx EXCEPT !.payloads =
        [k \in Keys |->
           LET at == {i \in 1..Len(rows) : rows[i].Key = k}
           IN IF at = {} THEN tx.payloads[k]
              ELSE rows[CHOOSE i \in at : \A j \in at : j <= i].Value]]

StoreLastProcessedBlock(tx, block) == [tx EXCEPT !.block = block]

Commit(tx) == [storage |-> tx.payloads, block |-> tx.block]

\* the step of store at which the database fails
FailPoints == {"none", "begin", "data", "block", "commit"}

\* what a store call did: whether a transaction was opened, the number of
\* Rollback calls, whether Commit succeeded, and the failing step
StoreLog(opened, rollbacks, committed, fail) ==
    [called |-> TRUE, opened |-> opened, rollbacks |-> rollbacks,
     committed |-> committed, fail |-> fail]

\* store(block, data) on the durable state db; fail is the step that fails.
\* Result: the returned error, the durable state afterwards and the calls made.
\* (storeCommitsAfterPointerFailure: the variant that commits what it has when
\* the progress write fails; storeSkipsPayloads: the variant without the
\* payload write of line 191.)
storeCommitsAfterPointerFailure(db, block, rows, fail) ==
    LET tx0 == BeginStateTransaction(db)
        tx1 == StoreOffChainData(tx0, rows)
        tx2 == StoreLastProcessedBlock(tx1, block)
    IN CASE fail = "begin" ->
              [err |-> "store", db |-> db, log |-> StoreLog(FALSE, 0, FALSE, fail)]
         [] fail = "data" ->
              [err |-> "store", db |-> db, log |-> StoreLog(TRUE, 1, FALSE, fail)]
         [] fail = "block" ->
              [err |-> "store", db |-> Commit(tx1),
               log |-> StoreLog(TRUE, 0, TRUE, fail)]
         [] fail = "commit" ->
              [err |-> "store", db |-> db, log |-> StoreLog(TRUE, 0, FALSE, fail)]
         [] OTHER ->
              [err |-> "nil", db |-> Commit(tx2), log |-> StoreLog(TRUE, 0, TRUE, fail)]

storeSkipsPayloads(db, block, rows, fail) ==
    LET tx0 == BeginStateTransaction(db)
        tx2 == StoreLastProcessedBlock(tx0, block)
    IN CASE fail = "begin" ->
              [err |-> "store", db |-> db, log |-> StoreLog(FALSE, 0, FALSE, fail)]
         [] fail \in {"data", "block"} ->
              [err |-> "store", db |-> db, log |-> StoreLog(TRUE, 1, FALSE, fail)]
         [] fail = "commit" ->
              [err |-> "store", db |-> db, log |-> StoreLog(TRUE, 0, FALSE, fail)]
         [] OTHER ->
              [err |-> "nil", db |-> Commit(tx2), log |-> StoreLog(TRUE, 0, TRUE, fail)]

\* (storeKeepsPointer: the variant without the progress write of line 195.)
storeKeepsPointer(db, block, rows, fail) ==
    LET tx0 == BeginStateTransaction(db)
        tx1 == StoreOffChainData(tx0, rows)
    IN CASE fail = "begin" ->
              [err |-> "store", db |-> db, log |-> StoreLog(FALSE, 0, FALSE, fail)]
         [] fail \in {"data", "block"} ->
              [err |-> "store", db |-> db, log |-> StoreLog(TRUE, 1, FALSE, fail)]
         [] fail = "commit" ->
              [err |-> "store", db |-> db, log |-> StoreLog(TRUE, 0, FALSE, fail)]
         [] OTHER ->
              [err |-> "nil", db |-> Commit(tx1), log |-> StoreLog(TRUE, 0, TRUE, fail)]

store(db, block, rows, fail) ==
    LET tx0 == BeginStateTransaction(db)
        tx1 == StoreOffChainData(tx0, rows)
        tx2 == StoreLastProcessedBlock(tx1, block)
    IN CASE fail = "begin" ->
              \* lines 188-190: no transaction
              [err |-> "store", db |-> db, log |-> StoreLog(FALSE, 0, FALSE, fail)]
         [] fail \in {"data", "block"} ->
              \* lines 191-198: rollback(ctx, err, dbTx); return err
              [err |-> "store", db |-> db, log |-> StoreLog(TRUE, 1, FALSE, fail)]
         [] fail = "commit" ->
              \* lines 199-201: return err; Rollback is not called
              [err |-> "store", db |-> db, log |-> StoreLog(TRUE, 0, FALSE, fail)]
         [] OTHER ->
              [err |-> "nil", db |-> Commit(tx2), log |-> StoreLog(TRUE, 0, TRUE, fail)]

\* ---------------------------------------------------------- committee cache
\* GetCurrentDataCommittee: err, or the on-chain membership (a set of addresses)
CommitteeReads == {[err |-> TRUE, members |-> {}]}
                  \cup {[err |-> FALSE, members |-> m] : m \in SUBSET Addrs}

\* resolveCommittee: on success bs.committee becomes the membership minus self
\* (resolveCommitteeKeepsSelf: the variant without the test of line 66.)
resolveCommitteeKeepsSelf(c, current) ==
    IF current.err THEN [err |-> TRUE, committee |-> c]
    ELSE [err |-> FALSE, committee |-> current.members]

resolveCommittee(c, current) ==
    IF current.err THEN [err |-> TRUE, committee |-> c]
    ELSE [err |-> FALSE, committee |-> {a \in current.members : a # Self}]

\* ------------------------------------------------------------------ resolve
\* What a member's endpoint answers when asked for the key: -1 a transport
\* error, 0 an empty payload, 1 a non-empty payload (the code looks at
\* len(bytes) only).
Answers == {-1, 0, 1}

\* cm.GetOffChainData(ctx, key) against the member with address addr. The
\* zero-valued member has the URL "", a request to it fails.
GetOffChainData(addr, answer) ==
    IF addr = ZeroAddr \/ answer = -1 THEN [bytes |-> 0, err |-> TRUE]
    ELSE [bytes |-> answer, err |-> FALSE]

resolveWithMember(key, addr, answer) ==
    LET got == GetOffChainData(addr, answer)
    IN [data |-> IF got.bytes > 0 THEN [Key |-> key, Value |-> got.bytes]
                 ELSE ZeroData,
        err |-> IF got.bytes = 0 THEN TRUE ELSE got.err]

\* lines 219-222: make([]member, n) holds n zero-valued members, the n cache
\* entries are appended after them.
membersOf(c) ==
    [i \in 1..Cardinality(c) |-> ZeroAddr] \o SetToSeq(c)

\* lines 212-222: refresh an empty cache, then take the working list.
\* current is the chain's answer if the cache is refreshed.
\* (resolveBeginNeverRefreshes: the variant without lines 212-217.)
resolveBeginNeverRefreshes(c, current) ==
    [err |-> "nil", committee |-> c, refreshed |-> FALSE,
     members |-> membersOf(c)]

resolveBegin(c, current) ==
    LET refreshed == c = {}
        rc == IF refreshed THEN resolveCommittee(c, current)
              ELSE [err |-> FALSE, committee |-> c]
    IN [err |-> IF rc.err THEN "committee" ELSE "nil",
        committee |-> rc.committee, refreshed |-> refreshed,
        members |-> IF rc.err THEN <<>> ELSE membersOf(rc.committee)]

\* lines 225-235: one iteration of the loop over rand.Perm, at the slot i of
\* members that the permutation yields next; visited are the slots before it.
\* status "continue": the loop goes on; "nil": line 233; "notfound": line 235.
\* (resolveVisitGivesUp: the variant that ends the loop at the first member
\* that fails.)
resolveVisitGivesUp(key, members, visited, i, answer, c) ==
    LET r == resolveWithMember(key, members[i], answer)
    IN IF r.err
       THEN [status |-> "notfound", value |-> ZeroData,
             committee |-> c \ {members[i]}, visited |-> visited \cup {i}]
       ELSE [status |-> "nil", value |-> r.data, committee |-> c,
             visited |-> visited \cup {i}]

resolveVisit(key, members, visited, i, answer, c) ==
    LET r == resolveWithMember(key, members[i], answer)
        seen == visited \cup {i}
    IN IF r.err
       THEN [status |-> IF seen = DOMAIN members THEN "notfound" ELSE "continue",
             value |-> ZeroData, committee |-> c \ {members[i]},
             visited |-> seen]
       ELSE [status |-> "nil", value |-> r.data, committee |-> c,
             visited |-> seen]

\* The slots rand.Perm can yield next. The first n slots hold the same
\* zero-valued member, so they are taken in ascending order.
NextSlots(members, visited) ==
    LET n == Len(members) \div 2
        zeros == (1..n) \ visited
    IN (((n + 1)..(2 * n)) \ visited)
       \cup (IF zeros = {} THEN {}
             ELSE {CHOOSE z \in zeros : \A y \in zeros : z <= y})

\* what the member in slot i of members can answer
AnswersOf(members, i) == IF members[i] = ZeroAddr THEN {-1} ELSE Answers

\* The visit of a zero-valued slot fails and evicts nothing (line 230 deletes
\* an address the map does not hold) wherever the permutation puts it, so the
\* results of the whole loop over all permutations are its results over the
\* permutations that take the zero-valued slots first.
ZerosFirst(members, visited) ==
    LET next == NextSlots(members, visited)
        zeros == {i \in next : members[i] = ZeroAddr}
    IN IF zeros # {} THEN zeros ELSE next

\* lines 225-235 as a whole: the ways the loop can end, over the orders
\* rand.Perm can yield and over what the members visited answer
RECURSIVE visitMembers(_, _, _, _)
visitMembers(key, members, visited, c) ==
    IF visited = DOMAIN members
    THEN {[status |-> "notfound", value |-> ZeroData, committee |-> c,
           visited |-> visited]}
    ELSE UNION {
           IF v.status = "continue"
           THEN visitMembers(key, members, v.visited, v.committee)
           ELSE {v}
           : v \in UNION {{resolveVisit(key, members, visited, i, answer, c) :
                              answer \in AnswersOf(members, i)} :
                            i \in ZerosFirst(members, visited)}}

\* resolve(key) as a whole: the results it can return, each with the cache
\* it leaves behind
resolve(c, key, current) ==
    LET b == resolveBegin(c, current)
    IN IF b.err # "nil"
       THEN {[err |-> b.err, value |-> ZeroData, committee |-> b.committee]}
       ELSE {[err |-> v.status, value |-> v.value, committee |-> v.committee] :
               v \in visitMembers(key, b.members, {}, b.committee)}

\* The accesses to bs.committee and whether bs.lock is held at each. Only
\* resolveCommittee takes the lock (lines 57-58), for its assignment of line
\* 70; resolve has no Lock call, so its len (line 212), its range (line 220)
\* and its delete (line 230) run without it.
resolveCommitteeAccesses(rerr) ==
    IF rerr = "nil" THEN {[op |-> "replace", held |-> TRUE]} ELSE {}

resolveBeginAccesses(b) ==
    {[op |-> "len", held |-> FALSE]}
    \cup (IF b.refreshed THEN resolveCommitteeAccesses(b.err) ELSE {})
    \cup (IF b.err = "nil" THEN {[op |-> "range", held |-> FALSE]} ELSE {})

resolveVisitAccesses(v) ==
    IF v.status = "nil" THEN {} ELSE {[op |-> "delete", held |-> FALSE]}

\* The chain answers a resolve call on cache c can meet.
ResolveReads(c) == IF c = {} THEN CommitteeReads
                   ELSE {[err |-> FALSE, members |-> c]}

\* ------------------------------------------------- handleSequenceBatches
\* lines 153-159: the keys of the event that storage does not hold, in order
\* (missingKeysAll: the variant without the existence probe.)
missingKeysAll(st, keys) == keys

missingKeys(st, keys) == SelectSeq(keys, LAMBDA k : ~Exists(st, k))

\* resolveAndStore, lines 171-178, after resolve(keys[i]) returned:
\* the error ends the call, otherwise the value is appended and the loop
\* goes on to the next key or to store.
\* (afterResolveIgnoresError: the variant without lines 173-175.)
afterResolveIgnoresError(keys, rows, rerr, value) ==
    LET rows2 == Append(rows, value)
    IN [pc |-> IF Len(rows2) < Len(keys) THEN "resolve" ELSE "store",
        err |-> "nil", data |-> rows2]

afterResolve(keys, rows, rerr, value) ==
    IF rerr # "nil"
    THEN [pc |-> "failed", err |-> rerr, data |-> rows]
    ELSE LET rows2 == Append(rows, value)
         IN [pc |-> IF Len(rows2) < Len(keys) THEN "resolve" ELSE "store",
             err |-> "nil", data |-> rows2]

\* -------------------------------------------------------------- subscriptions
\* Every block 1..MaxBlock carries one event. A subscription sends the events
\* from its start block on, in order, on the shared events channel, until it
\* has sent them all. leaked is the set of next blocks at which some
\* subscription stands that Start has dropped without unsubscribing it.
FirstBlock(from) == IF from = 0 THEN 1 ELSE from

\* sub.Unsubscribe()
Unsubscribe(s) == IF s = "nil" THEN "nil" ELSE "closed"

\* lines 108-113: the current subscription is unsubscribed when handling failed
subAfterHandle(s, e) == IF e # "nil" THEN Unsubscribe(s) ELSE s

\* A subscription that is still live when its iteration ends stays live with
\* nobody holding it (one that has sent all its events sends no more).
dropSub(s, next, lk) ==
    IF s = "live" /\ next \in Blocks THEN lk \cup {next} ELSE lk

\* lines 79-84, 125: the iteration ends with its subscription in state s and
\* standing at block next, lk being the subscriptions dropped before; start
\* is out of scope and Start is at the top of the loop. sub goes on showing
\* what the iteration did with its subscription until GetStart declares it
\* anew.
EndIteration(s, next, lk) ==
    /\ sub' = s
    /\ leaked' = dropSub(s, next, lk)
    /\ subNext' = 0
    /\ start' = 0
    /\ pc' = "getStart"

\* handleSequenceBatches returned e: its locals are gone, lines 108-113
Handled(e, next, lk) ==
    /\ err' = e
    /\ sb' = NoEvent
    /\ missing' = <<>>
    /\ data' = <<>>
    /\ EndIteration(subAfterHandle(sub, e), next, lk)

\* --------------------------------------------------------------------- Init
\* NewBatchSynchronizer has called resolveCommittee successfully; Start has
\* been entered and nothing is stored yet.
Init ==
    /\ pc = "getStart"
    /\ stop = FALSE
    /\ start = 0
    /\ sub = "nil"
    /\ subNext = 0
    /\ err = "nil"
    /\ sb = NoEvent
    /\ leaked = {}
    /\ committee \in {resolveCommittee({}, cur).committee :
                        cur \in {r \in CommitteeReads : ~r.err}}
    /\ storage = [k \in Keys |-> 0]
    /\ lastProcessedBlock = 0
    /\ missing = <<>>
    /\ data = <<>>
    /\ lastResolve = NoResolve
    /\ storeLog = NoStore

\* -------------------------------------------------------------------- Start
\* lines 80-86: a new iteration; start, err = bs.getStartBlock()
GetStart ==
    /\ pc = "getStart"
    /\ \E dbErr \in BOOLEAN :
         LET g == getStartBlock(lastProcessedBlock, dbErr)
         IN /\ start' = g.start
            /\ pc' = IF g.err THEN "sleepStart" ELSE "subscribe"
    /\ sub' = "nil"
    /\ err' = "nil"
    /\ lastResolve' = NoResolve
    /\ storeLog' = NoStore
    /\ UNCHANGED <<stop, subNext, sb, leaked, committee, storage,
                   lastProcessedBlock, missing, data>>

\* line 89: <-time.After(bs.retry)
SleepStart ==
    /\ pc = "sleepStart"
    /\ pc' = "retryStart"
    /\ UNCHANGED <<stop, start, sub, subNext, err, sb, leaked, committee,
                   storage, lastProcessedBlock, missing, data, lastResolve,
                   storeLog>>

\* line 88: start, err = bs.getStartBlock() inside the retry loop
RetryStart ==
    /\ pc = "retryStart"
    /\ \E dbErr \in BOOLEAN :
         LET g == getStartBlock(lastProcessedBlock, dbErr)
         IN /\ start' = g.start
            /\ pc' = IF g.err THEN "sleepStart" ELSE "subscribe"
    /\ UNCHANGED <<stop, sub, subNext, err, sb, leaked, committee, storage,
                   lastProcessedBlock, missing, data, lastResolve, storeLog>>

\* WatchSequenceBatches(&bind.WatchOpts{Start: &start}, events) succeeds
WatchOk ==
    /\ sub' = "live"
    /\ subNext' = FirstBlock(start)
    /\ pc' = "select"

\* WatchSequenceBatches fails: sub is nil, err is set
WatchFails ==
    /\ sub' = "nil"
    /\ subNext' = 0
    /\ pc' = "sleepSub"

\* lines 92-94
Subscribe ==
    /\ pc = "subscribe"
    /\ (WatchOk \/ WatchFails)
    /\ UNCHANGED <<stop, start, err, sb, leaked, committee, storage,
                   lastProcessedBlock, missing, data, lastResolve, storeLog>>

\* line 102: <-time.After(bs.retry)
SleepSub ==
    /\ pc = "sleepSub"
    /\ pc' = "retrySub"
    /\ UNCHANGED <<stop, start, sub, subNext, err, sb, leaked, committee,
                   storage, lastProcessedBlock, missing, data, lastResolve,
                   storeLog>>

\* lines 98-101: the subscription is tried again
RetrySub ==
    /\ pc = "retrySub"
    /\ (WatchOk \/ WatchFails)
    /\ UNCHANGED <<stop, start, err, sb, leaked, committee, storage,
                   lastProcessedBlock, missing, data, lastResolve, storeLog>>

\* handleSequenceBatches(ev), lines 147-160, up to the call of resolveAndStore.
\* next and lk are the subscriptions' positions once ev has been sent.
Handle(ev, next, lk) ==
    LET p == parseEvent(ev)
        keys == missingKeys(storage, p.keys)
    IN /\ CASE p.err = "panic" ->
                 /\ sb' = ev
                 /\ pc' = "panicked"
                 /\ subNext' = next
                 /\ leaked' = lk
                 /\ UNCHANGED <<start, err, sub, missing, data>>
            [] p.err = "decode" ->
                 Handled("decode", next, lk)
            [] OTHER ->
                 /\ sb' = ev
                 /\ missing' = keys
                 /\ pc' = IF keys = <<>> THEN "store" ELSE "resolve"
                 /\ subNext' = next
                 /\ leaked' = lk
                 /\ UNCHANGED <<start, err, sub, data>>
       /\ UNCHANGED <<stop, committee, storage, lastProcessedBlock,
                      lastResolve, storeLog>>

\* the events block b can carry
EventsAt(b) == {ev \in Events : ev.block = b}

\* line 107: the current subscription sends the event of its next block
RecvEvent ==
    /\ pc = "select"
    /\ sub = "live"
    /\ subNext \in Blocks
    /\ \E ev \in EventsAt(subNext) : Handle(ev, subNext + 1, leaked)

\* line 107: a subscription of an earlier iteration sends its next event on
\* the channel the iterations share. Several subscriptions may stand at the
\* same block: more tells whether another one is left there.
RecvLeaked ==
    /\ pc = "select"
    /\ \E b \in leaked, more \in BOOLEAN :
         \E ev \in EventsAt(b) :
           Handle(ev, subNext,
                  (IF more THEN leaked ELSE leaked \ {b})
                    \cup ({b + 1} \cap Blocks))

\* resolveAndStore, lines 171-177: value, err := bs.resolve(key) for the
\* next key, and what the loop does with the result
Resolve ==
    /\ pc = "resolve"
    /\ LET key == missing[Len(data) + 1]
       IN \E current \in ResolveReads(committee) :
            \E r \in resolve(committee, key, current) :
              LET a == afterResolve(missing, data, r.err, r.value)
              IN /\ committee' = r.committee
                 /\ lastResolve' = [called |-> TRUE, key |-> key,
                                    index |-> Len(data) + 1,
                                    err |-> r.err, value |-> r.value]
                 /\ IF a.pc = "failed"
                    THEN Handled(a.err, subNext, leaked)
                    ELSE /\ pc' = a.pc
                         /\ data' = a.data
                         /\ UNCHANGED <<start, sub, subNext, err, sb, leaked,
                                        missing>>
    /\ UNCHANGED <<stop, storage, lastProcessedBlock, storeLog>>

\* resolveAndStore, line 178: return bs.store(block, data)
Store ==
    /\ pc = "store"
    /\ \E fail \in FailPoints :
         LET r == store([storage |-> storage, block |-> lastProcessedBlock],
                        parseEvent(sb).block, data, fail)
         IN /\ storage' = r.db.storage
            /\ lastProcessedBlock' = r.db.block
            /\ storeLog' = r.log
            /\ Handled(r.err, subNext, leaked)
    /\ UNCHANGED <<stop, committee, lastResolve>>

\* lines 114-115: the subscription reports an error and ends
SubErr ==
    /\ pc = "select"
    /\ sub = "live"
    /\ EndIteration("closed", subNext, leaked)
    /\ UNCHANGED <<stop, err, sb, committee, storage, lastProcessedBlock,
                   missing, data, lastResolve, storeLog>>

\* lines 116-117: bs.timeout has passed
CtxDone ==
    /\ pc = "select"
    /\ EndIteration(sub, subNext, leaked)
    /\ UNCHANGED <<stop, err, sb, committee, storage, lastProcessedBlock,
                   missing, data, lastResolve, storeLog>>

\* lines 118-123: the stop channel is closed
StopCase ==
    /\ pc = "select"
    /\ stop
    /\ sub' = Unsubscribe(sub)
    /\ pc' = "returned"
    /\ UNCHANGED <<stop, start, subNext, err, sb, leaked, committee, storage,
                   lastProcessedBlock, missing, data, lastResolve, storeLog>>

\* Stop(), lines 142-145, called by another goroutine
Stop ==
    /\ ~stop
    /\ stop' = TRUE
    /\ UNCHANGED <<pc, start, sub, subNext, err, sb, leaked, committee,
                   storage, lastProcessedBlock, missing, data, lastResolve,
                   storeLog>>

\* one step of the goroutine that runs Start
StartStep ==
    \/ GetStart
    \/ SleepStart
    \/ RetryStart
    \/ Subscribe
    \/ SleepSub
    \/ RetrySub
    \/ RecvEvent
    \/ RecvLeaked
    \/ Resolve
    \/ Store
    \/ SubErr
    \/ CtxDone
    \/ StopCase

Next == StartStep \/ Stop

Spec == Init /\ [][Next]_vars

\* The Go scheduler runs the goroutine of Start whenever it can take a step,
\* and a select whose stop case stays ready again and again takes it at last.
FairSpec == Spec /\ WF_vars(StartStep) /\ SF_vars(StopCase)

PCs == {"getStart", "sleepStart", "retryStart", "subscribe", "sleepSub",
        "retrySub", "select", "resolve", "store", "returned", "panicked"}

TypeOK ==
    /\ pc \in PCs
    /\ stop \in BOOLEAN
    /\ start \in 0..MaxBlock
    /\ sub \in {"nil", "live", "closed"}
    /\ subNext \in 0..(MaxBlock + 1)
    /\ err \in {"nil", "decode", "committee", "notfound", "store"}
    /\ sb \in Events \cup {NoEvent}
    /\ leaked \subseteq Blocks
    /\ committee \subseteq (Addrs \ {Self})
    /\ storage \in [Keys -> {0, 1}]
    /\ lastProcessedBlock \in 0..MaxBlock
    /\ missing \in SeqsUpTo(Keys, MaxBatches)
    /\ data \in SeqsUpTo([Key : Keys, Value : {1}], MaxBatches)
    /\ lastResolve \in [called : BOOLEAN, key : 0..MaxKey, index : 0..MaxBatches,
                        err : {"nil", "committee", "notfound"},
                        value : [Key : 0..MaxKey, Value : {0, 1}]]
    /\ storeLog \in [called : BOOLEAN, opened : BOOLEAN, rollbacks : {0, 1},
                     committed : BOOLEAN, fail : FailPoints]

\* ------------------------------------------------------- resolve, stepwise
\* resolve(key) called again and again on every cache, one member visit per
\* step. lastResolve holds the call: the cache it found (cache), the chain's
\* answer to a refresh (read), the cache after the refresh (snapshot), the
\* working list, the slots visited, the members that answered with a payload
\* (good), and the result ("pending" while the loop runs). membership is what
\* the chain returned at the most recent successful refresh; at the start
\* that is the refresh of NewBatchSynchronizer, some of whose members may have
\* been evicted since.
ResolveInit ==
    /\ pc = "idle"
    /\ stop = FALSE
    /\ start = 0
    /\ sub = "nil"
    /\ subNext = 0
    /\ err = "nil"
    /\ sb = NoEvent
    /\ leaked = {}
    /\ \E current \in {r \in CommitteeReads : ~r.err} :
         /\ committee \in SUBSET resolveCommittee({}, current).committee
         /\ lastResolve = [called |-> FALSE, membership |-> current.members]
    /\ storage = [k \in Keys |-> 0]
    /\ lastProcessedBlock = 0
    /\ missing = <<>>
    /\ data = <<>>
    /\ storeLog = NoStore

\* lines 211-222 and, when there is nobody to visit, line 235
ResolveCall ==
    /\ pc = "idle"
    /\ \E key \in Keys, current \in ResolveReads(committee) :
         LET b == resolveBegin(committee, current)
         IN /\ committee' = b.committee
            /\ lastResolve' =
                 [called |-> TRUE, key |-> key, cache |-> committee,
                  read |-> current, refreshed |-> b.refreshed,
                  membership |-> IF b.refreshed /\ b.err = "nil"
                                 THEN current.members
                                 ELSE lastResolve.membership,
                  snapshot |-> b.committee, members |-> b.members,
                  accesses |-> resolveBeginAccesses(b),
                  visited |-> {}, good |-> {},
                  err |-> IF b.err # "nil" THEN b.err
                          ELSE IF b.members = <<>> THEN "notfound"
                          ELSE "pending",
                  value |-> ZeroData]
            /\ pc' = IF b.err = "nil" /\ b.members # <<>> THEN "visit"
                     ELSE "idle"
    /\ UNCHANGED <<stop, start, sub, subNext, err, sb, leaked, storage,
                   lastProcessedBlock, missing, data, storeLog>>

\* lines 225-235: the next member of the permutation is asked
ResolveVisit ==
    /\ pc = "visit"
    /\ \E i \in NextSlots(lastResolve.members, lastResolve.visited) :
         \E answer \in AnswersOf(lastResolve.members, i) :
           LET v == resolveVisit(lastResolve.key, lastResolve.members,
                                 lastResolve.visited, i, answer, committee)
               got == GetOffChainData(lastResolve.members[i], answer)
           IN /\ committee' = v.committee
              /\ lastResolve' =
                   [lastResolve EXCEPT
                      !.visited = v.visited,
                      !.accesses = resolveVisitAccesses(v),
                      !.good = IF got.bytes > 0
                               THEN @ \cup {lastResolve.members[i]} ELSE @,
                      !.err = IF v.status = "continue" THEN "pending"
                              ELSE v.status,
                      !.value = v.value]
              /\ pc' = IF v.status = "continue" THEN "visit" ELSE "idle"
    /\ UNCHANGED <<stop, start, sub, subNext, err, sb, leaked, storage,
                   lastProcessedBlock, missing, data, storeLog>>

ResolveNext == ResolveCall \/ ResolveVisit

ResolveSpec == ResolveInit /\ [][ResolveNext]_vars

\* ------------------------------------- handleSequenceBatches, call by call
\* handleSequenceBatches called over and over with one event, on a durable
\* state that may hold payloads stored in earlier runs, among them payloads
\* other than the bytes the members answer now. pc = "idle": between two
\* calls. storeLog keeps the history of the calls: the event, the payload
\* table before the first call (before), how the last call ended (result) and
\* how the call before it ended (prior).
Payload == CHOOSE a \in Answers : a > 0

OldPayload == Payload + 1

Durable == [storage |-> storage, block |-> lastProcessedBlock]

HandleInit ==
    /\ pc = "idle"
    /\ stop = FALSE
    /\ start = 0
    /\ sub = "nil"
    /\ subNext = 0
    /\ err = "nil"
    /\ sb = NoEvent
    /\ leaked = {}
    /\ committee = Addrs \ {Self}
    /\ storage \in [Keys -> {0, OldPayload}]
    /\ lastProcessedBlock \in Blocks
    /\ missing = <<>>
    /\ data = <<>>
    /\ lastResolve = NoResolve
    /\ \E ev \in Events :
         storeLog = [event |-> ev, prior |-> "none", before |-> storage,
                     result |-> "none"]

\* lines 147-160: the event is parsed and its missing keys are collected
HandleBegin ==
    /\ pc = "idle"
    /\ LET ev == storeLog.event
           p == parseEvent(ev)
           keys == missingKeys(storage, p.keys)
           log == [storeLog EXCEPT !.prior = storeLog.result,
                                   !.result = "pending"]
       IN CASE p.err = "panic" ->
                   /\ pc' = "panicked"
                   /\ storeLog' = [log EXCEPT !.result = "panic"]
                   /\ UNCHANGED <<err, sb, missing>>
              [] p.err = "decode" ->
                   /\ pc' = "idle"
                   /\ err' = "decode"
                   /\ storeLog' = [log EXCEPT !.result = "failed"]
                   /\ UNCHANGED <<sb, missing>>
              [] OTHER ->
                   /\ pc' = IF keys = <<>> THEN "store" ELSE "resolve"
                   /\ sb' = ev
                   /\ missing' = keys
                   /\ storeLog' = log
                   /\ UNCHANGED err
    /\ UNCHANGED <<stop, start, sub, subNext, leaked, committee, storage,
                   lastProcessedBlock, data, lastResolve>>

\* lines 171-177: the next missing key is resolved
HandleResolve ==
    /\ pc = "resolve"
    /\ LET key == missing[Len(data) + 1]
       IN \E current \in ResolveReads(committee) :
            \E r \in resolve(committee, key, current) :
              LET a == afterResolve(missing, data, r.err, r.value)
              IN /\ committee' = r.committee
                 /\ IF a.pc = "failed"
                    THEN /\ pc' = "idle"
                         /\ err' = a.err
                         /\ sb' = NoEvent
                         /\ missing' = <<>>
                         /\ data' = <<>>
                         /\ storeLog' = [storeLog EXCEPT !.result = "failed"]
                    ELSE /\ pc' = a.pc
                         /\ data' = a.data
                         /\ UNCHANGED <<err, sb, missing, storeLog>>
    /\ UNCHANGED <<stop, start, sub, subNext, leaked, storage,
                   lastProcessedBlock, lastResolve>>

\* line 178 and lines 181-203
HandleStore ==
    /\ pc = "store"
    /\ \E fail \in FailPoints :
         LET r == store(Durable, parseEvent(sb).block, data, fail)
         IN /\ storage' = r.db.storage
            /\ lastProcessedBlock' = r.db.block
            /\ err' = r.err
            /\ storeLog' =
                 [storeLog EXCEPT
                    !.result = IF r.log.committed THEN "committed"
                               ELSE IF r.log.rollbacks > 0 THEN "rolledback"
                               ELSE "failed"]
    /\ pc' = "idle"
    /\ sb' = NoEvent
    /\ missing' = <<>>
    /\ data' = <<>>
    /\ UNCHANGED <<stop, start, sub, subNext, leaked, committee, lastResolve>>

HandleNext == HandleBegin \/ HandleResolve \/ HandleStore

HandleSpec == HandleInit /\ [][HandleNext]_vars

\* the durable state that one handling of ev that succeeds leaves, started
\* on the payload table st
SingleHandling(st, ev) ==
    [storage |-> [k \in Keys |-> IF st[k] # 0 THEN st[k]
                                 ELSE IF k \in Range(parseEvent(ev).keys)
                                 THEN Payload ELSE 0],
     block |-> parseEvent(ev).block]

\* Every result the stepwise loop reaches, over every permutation, is one of
\* the results of resolve taken as a whole.
ResolveCoversSteps ==
    (lastResolve.called /\ lastResolve.err # "pending") =>
      [err |-> lastResolve.err, value |-> lastResolve.value,
       committee |-> committee]
        \in resolve(lastResolve.cache, lastResolve.key, lastResolve.read)

\* ------------------------------------------------------------- properties
\* the keys an event references
KeysOf(ev) == Range(parseEvent(ev).keys)

\* a step in which store(block, data) commits its transaction
StoreCommits == pc = "store" /\ storeLog'.called /\ storeLog'.committed

\* a step in which store(block, data) returns an error
StoreFails == pc = "store" /\ storeLog'.called /\ storeLog'.fail # "none"

\* C1: lastProcessedBlock changes only in a step in which store commits, and
\* a committing store leaves lastProcessedBlock at the block of the event
\* being handled with every key that event references present in storage.
C1_PointerOnlyWithPayloads ==
    [][/\ (lastProcessedBlock' # lastProcessedBlock) => StoreCommits
       /\ StoreCommits =>
            /\ lastProcessedBlock' = parseEvent(sb).block
            /\ \A k \in KeysOf(sb) : Exists(storage', k)]_vars

\* C1 witness: a commit has set the pointer for an event whose payload was
\* fetched in this handling
C1_Witness ==
    /\ storeLog.called /\ storeLog.committed
    /\ lastResolve.called /\ lastResolve.err = "nil"
    /\ lastProcessedBlock > 0
    /\ Exists(storage, lastResolve.key)

\* C2: a store that fails, at whichever step, returns an error and leaves
\* the payload table and lastProcessedBlock as they were, so that none of
\* the payloads of data is in storage.
C2_FailedStoreChangesNothing ==
    [][StoreFails =>
         /\ err' = "store"
         /\ storage' = storage
         /\ lastProcessedBlock' = lastProcessedBlock
         /\ \A i \in 1..Len(data) : ~Exists(storage', data[i].Key)]_vars

\* C2 witness: the progress write failed after the payload write, with
\* payloads in data, and store returned the error
C2_Witness ==
    /\ storeLog.called /\ storeLog.fail = "block"
    /\ lastResolve.called /\ lastResolve.err = "nil"
    /\ err = "store"

\* C3: while an event is handled, the keys given to resolveAndStore are the
\* keys of the event that storage does not hold, resolve has been called for
\* such a key only, and an event whose keys are all stored goes to store with
\* no resolve call.
C3_NoResolveForStoredKeys ==
    pc \in {"resolve", "store"} =>
      /\ Range(missing) = {k \in KeysOf(sb) : ~Exists(storage, k)}
      /\ lastResolve.called => ~Exists(storage, lastResolve.key)
      /\ (\A k \in KeysOf(sb) : Exists(storage, k)) =>
           (pc = "store" /\ ~lastResolve.called)

\* C3 witness: an event with a stored key and a missing key, the missing one
\* resolved
C3_Witness ==
    /\ pc = "store"
    /\ lastResolve.called
    /\ \E k \in KeysOf(sb) : Exists(storage, k)

\* C3 witness: an event with keys, all stored, reaches store
C3_WitnessAllStored ==
    /\ pc = "store"
    /\ KeysOf(sb) # {}
    /\ \A k \in KeysOf(sb) : Exists(storage, k)

\* C4: a resolve call ends with "not found" only when every member of the
\* cache it started from has been asked and none answered with a payload;
\* as soon as a member answers with a payload the call returns nil with a
\* payload that carries the key.
C4_AnyMemberWithPayloadResolves ==
    lastResolve.called =>
      /\ lastResolve.err = "notfound" =>
           /\ lastResolve.good = {}
           /\ \A a \in lastResolve.snapshot :
                \E i \in lastResolve.visited : lastResolve.members[i] = a
      /\ lastResolve.good # {} =>
           /\ lastResolve.err = "nil"
           /\ lastResolve.value.Key = lastResolve.key
           /\ lastResolve.value.Value > 0

\* C4 witness: the call succeeded with the last member asked, after every
\* other member of the cache had failed and was evicted
C4_Witness ==
    /\ lastResolve.called
    /\ lastResolve.err = "nil"
    /\ Cardinality(lastResolve.snapshot) >= 2
    /\ committee = lastResolve.good
    /\ Cardinality(committee) = 1

\* C5: a step in which resolve fails for a key ends the handling with that
\* error and leaves the payload table and lastProcessedBlock as they were;
\* store is not called.
C5_ResolveFailureStoresNothing ==
    [][(pc = "resolve" /\ lastResolve'.err # "nil") =>
         /\ pc' = "getStart"
         /\ err' = lastResolve'.err
         /\ storage' = storage
         /\ lastProcessedBlock' = lastProcessedBlock
         /\ ~storeLog'.called]_vars

\* C5 witness: the second missing key of an event could not be resolved after
\* the first had been
C5_Witness ==
    /\ lastResolve.called
    /\ lastResolve.err = "notfound"
    /\ lastResolve.index = 2
    /\ err = "notfound"
    /\ ~storeLog.called

\* C6: from the read of the progress record to the select, start is the
\* stored lastProcessedBlock minus one, or 0 when that is 0, and the
\* subscription established sends from that block on.
C6_StartBlock ==
    pc \in {"subscribe", "sleepSub", "retrySub", "select"} =>
      /\ start = (IF lastProcessedBlock > 0 THEN lastProcessedBlock - 1 ELSE 0)
      /\ start >= 0
      /\ (pc = "select" /\ sub = "live") => subNext = FirstBlock(start)

\* C6 witness: a subscription established after block MaxBlock was processed
C6_Witness ==
    /\ pc = "select"
    /\ sub = "live"
    /\ lastProcessedBlock = MaxBlock
    /\ start = MaxBlock - 1

\* C6 witness: a subscription established with nothing processed
C6_WitnessZero ==
    /\ pc = "select"
    /\ sub = "live"
    /\ lastProcessedBlock = 0
    /\ start = 0

\* C7: once Stop has been called, Start comes to an end. (The formula counts
\* a crash of the goroutine as an end too, so only a run in which Start goes
\* on for ever after Stop refutes it.)
C7_StopEndsStart == stop ~> (pc \in {"returned", "panicked"})

\* a step in which Start receives an event and calls handleSequenceBatches
HandlingBegins ==
    /\ pc = "select"
    /\ \/ pc' \in {"resolve", "store", "panicked"}
       \/ pc' = "getStart" /\ err' = "decode"

\* a step in which WatchSequenceBatches returns a new subscription
SubscriptionEstablished == sub # "live" /\ sub' = "live"

\* C8: once Stop has been called, Start begins no handling of an event and
\* establishes no subscription.
C8_NoNewWorkAfterStop ==
    [][stop => (~HandlingBegins /\ ~SubscriptionEstablished)]_vars

\* a step in which the handling of an event ends without success: an error
\* is returned to Start, or the decoding of the event panics
HandlingFails ==
    /\ pc \in {"select", "resolve", "store"}
    /\ \/ pc' = "panicked"
       \/ pc' = "getStart" /\ err' # "nil"

\* C9: when the handling of an event fails, the current subscription is
\* unsubscribed, lastProcessedBlock is as before the event, and Start is at
\* the top of its loop, about to recompute the start block.
C9_FailureResubscribes ==
    [][HandlingFails =>
         /\ pc' = "getStart"
         /\ sub' = "closed"
         /\ lastProcessedBlock' = lastProcessedBlock]_vars

\* C10: Start never ends because of a failure: it has returned only if Stop
\* was called, and it has not crashed.
C10_OnlyStopEndsStart ==
    /\ pc # "panicked"
    /\ pc = "returned" => stop

\* C11: the cache never holds bs.self and is within the membership of the
\* most recent successful refresh; it gains entries only in a refresh by
\* resolveCommittee, which resolve calls on an empty cache, it loses entries
\* only to the evictions of resolve, and a refresh that fails leaves it as it
\* was.
C11_CacheWithinMembership ==
    [][/\ Self \notin committee'
       /\ committee' \subseteq lastResolve'.membership
       /\ (committee' \ committee # {}) =>
            /\ pc = "idle" /\ committee = {}
            /\ lastResolve'.refreshed /\ ~lastResolve'.read.err
            /\ committee' = lastResolve'.read.members \ {Self}
       /\ (committee \ committee' # {}) =>
            (pc = "visit" \/ (pc = "idle" /\ lastResolve'.refreshed))
       /\ (pc = "idle" /\ lastResolve'.err = "committee") =>
            committee' = committee]_vars

\* C11 witness: a refresh from a membership that includes bs.self, followed
\* by an eviction
C11_Witness ==
    /\ lastResolve.called /\ lastResolve.refreshed
    /\ Self \in lastResolve.membership
    /\ committee # {}
    /\ committee # lastResolve.snapshot

\* C11 witness: a refresh has failed
C11_WitnessFailedRefresh ==
    lastResolve.called /\ lastResolve.err = "committee"

\* C12: every access of resolve and of resolveCommittee to the cache is made
\* with bs.lock held. (Fails: resolve never takes the lock.)
C12_AccessesHoldLock ==
    lastResolve.called => \A a \in lastResolve.accesses : a.held

\* C13: a call in which every member fails returns not-found and leaves the
\* cache empty; the call that follows finds the cache empty and refreshes it
\* before any member is asked, returning the error of the refresh when it
\* fails; a call on a cache that is not empty does not refresh.
C13_EmptyCacheRefreshes ==
    [][/\ lastResolve'.err = "notfound" => committee' = {}
       /\ (lastResolve.called /\ lastResolve.err = "notfound") =>
            lastResolve'.refreshed
       /\ pc = "idle" =>
            /\ lastResolve'.refreshed <=> (committee = {})
            /\ lastResolve'.visited = {}
            /\ lastResolve'.refreshed =>
                 IF lastResolve'.read.err
                 THEN /\ lastResolve'.err = "committee"
                      /\ pc' = "idle"
                 ELSE /\ committee' = lastResolve'.read.members \ {Self}
                      /\ lastResolve'.snapshot = committee'
                      /\ lastResolve'.err \in {"pending", "notfound"}
            /\ ~lastResolve'.refreshed => lastResolve'.snapshot = committee]_vars

\* C13 witness: every member of a cache that was not empty has failed
C13_Witness ==
    /\ lastResolve.called /\ lastResolve.err = "notfound"
    /\ ~lastResolve.refreshed /\ lastResolve.snapshot # {}
    /\ committee = {}

\* C13 witness: a call on an empty cache has refreshed it and goes on to ask
\* the members
C13_WitnessRefreshed ==
    /\ lastResolve.called /\ lastResolve.refreshed
    /\ lastResolve.cache = {} /\ lastResolve.visited # {}

\* C15: the members a call asks are members of the snapshot taken at its
\* start, each asked at most once. (Fails: the zero-valued slots of line 219
\* are asked too.)
C15_QueriesAreSnapshotMembers ==
    lastResolve.called =>
      /\ \A i \in lastResolve.visited :
           lastResolve.members[i] \in lastResolve.snapshot
      /\ \A i, j \in lastResolve.visited :
           lastResolve.members[i] = lastResolve.members[j] => i = j

\* C14: no step changes or deletes a payload that is stored; when the event
\* of the call before is handled again, after that call committed or after it
\* failed and was rolled back, a handling that commits leaves the payloads and
\* lastProcessedBlock that one successful handling of the event leaves, and
\* after a commit it leaves the durable state as it is.
C14_RehandlingIsIdempotent ==
    [][/\ \A k \in Keys : storage[k] # 0 => storage'[k] = storage[k]
       /\ (/\ pc = "store" /\ storeLog'.result = "committed"
           /\ storeLog.prior \in {"committed", "rolledback"}) =>
            /\ Durable' = SingleHandling(storeLog.before, sb)
            /\ storeLog.prior = "committed" => Durable' = Durable]_vars

\* C14 witness: an event with keys was committed and then handled and
\* committed again
C14_Witness ==
    /\ storeLog.prior = "committed"
    /\ storeLog.result = "committed"
    /\ KeysOf(storeLog.event) # {}
    /\ \E k \in KeysOf(storeLog.event) : storeLog.before[k] = 0

\* C14 witness: an attempt was rolled back and the event was then handled
\* again and committed
C14_WitnessAfterRollback ==
    /\ storeLog.prior = "rolledback"
    /\ storeLog.result = "committed"
    /\ \E k \in KeysOf(storeLog.event) : storeLog.before[k] = 0

\* C16: Start is at the top of its loop, about to establish a subscription,
\* only without a live subscription of its own: after a context timeout or a
\* handled event it goes on waiting on the one it has. (Fails: every case of
\* the select but stop leads back to the top of the loop.)
C16_ResubscribesOnlyAfterFailure ==
    pc \in {"getStart", "sleepStart", "retryStart", "subscribe"} =>
      sub # "live"

\* C17: a store that fails after BeginStateTransaction has returned a
\* transaction calls Rollback on it once. (Fails: the failure of Commit
\* returns without Rollback.)
C17_FailureAfterBeginRollsBack ==
    (storeLog.called /\ storeLog.opened /\ ~storeLog.committed) =>
      storeLog.rollbacks = 1

\* the database, the chain and the members do not fail, no context times out
\* and Stop is not called
NothingFails ==
    /\ ~stop
    /\ pc \notin {"sleepStart", "sleepSub"}
    /\ err \notin {"store", "notfound", "committee"}
    /\ (pc = "getStart" /\ sub # "nil") => (storeLog.called \/ err # "nil")

\* the handling of an event has failed
HandlingFailed == pc = "panicked" \/ (pc = "getStart" /\ err # "nil")

\* C18: when nothing fails but the handling of events, an event whose
\* handling failed is followed by a handling that commits. (Fails: the
\* goroutine that panicked handles nothing any more.)
C18_FailedHandlingIsRedone ==
    []NothingFails => (HandlingFailed ~> (storeLog.called /\ storeLog.committed))

\* C19: lastProcessedBlock never decreases. (Fails: the event of an earlier
\* block, sent again by a subscription that starts one block back, is
\* committed with its own block.)
C19_PointerNeverDecreases ==
    [][lastProcessedBlock' >= lastProcessedBlock]_vars

\* C20: while Start waits on its subscription, and after it has returned, no
\* subscription of an earlier iteration is live. (Fails: an iteration that
\* ends on a timeout or a handled event leaves its subscription live.)
C20_AtMostOneLiveSubscription ==
    pc \in {"select", "returned"} => leaked = {}

====
